---- MODULE Spec2Model ----
(***************************************************************************)
(* Model of pkg_mpc_tracker/Casadi_solver.py: the CasadiSolver controller   *)
(* object, its constructor, its run() cycle (attach, build, solve, extract, *)
(* warm-start shift) and the unicycle_model step function.                  *)
(*                                                                          *)
(* Scalars are integers.  Every scalar of a solver solution is a distinct   *)
(* tagged integer (StateVal / ControlVal) so that the position a value ends *)
(* up in is observable.  Headings handed to unicycle_model are measured in  *)
(* quarter turns, where cos and sin are exact on the integers.              *)
(***************************************************************************)
EXTENDS Integers, Sequences, FiniteSets, TLC

VARIABLES self, map_data, pc, ms, ret, runs, model_call

vars == <<self, map_data, pc, ms, ret, runs, model_call>>

\* ---------------------------------------------------------------- bounds
MaxN == 3
MaxRuns == 2

\* ------------------------------------------------------ program constants
\* the stride hard-coded in initial_guess[5:] and initial_guess[-5:]
ShiftStride == 5
\* 2*cs.pi, in milliradians
TwoPi == 6283

\* ------------------------------------------------------- Python list ops
Min(a, b) == IF a <= b THEN a ELSE b
Max(a, b) == IF a >= b THEN a ELSE b

\* s[a:b] for 0 <= a, 0 <= b (0-based, end clamped to len(s))
PySlice(s, a, b) == [i \in 1..Max(0, Min(b, Len(s)) - a) |-> s[a + i]]

\* s[n:] for n >= 0
PyDrop(s, n) == PySlice(s, n, Len(s))

\* s[-n:] for n > 0 (start clamped to 0)
PyLast(s, n) == PyDrop(s, Max(0, Len(s) - n))

\* [x] * n
PyRepeat(x, n) == [i \in 1..n |-> x]

\* ----------------------------------------------------------- input sets
NsSet == {2, 3}
NuSet == {1, 2}
Configs == [ns : NsSet, nu : NuSet, N_hor : 1..MaxN, ts : {1}]
RobotSpecs == {[lin_vel_min |-> 0, lin_vel_max |-> 1, ang_vel_max |-> 2]}
ParamLens == {4, 6, 8}
ParamVectors == {[i \in 1..L |-> 100 + i] : L \in ParamLens}
ExitStatuses == {"success", "infeasible", "max_iterations", "other"}
SolutionIds == {0, 1}

Rect == << <<0, 0>>, <<4, 0>>, <<4, 3>>, <<0, 3>> >>
RectFrom(k) == [i \in 1..4 |-> Rect[((i - 1 + k) % 4) + 1]]
Obstacle == << <<1, 1>>, <<2, 1>>, <<2, 2>> >>
MapFile(present, coords, obstacles) ==
    [present |-> present, boundary_coords |-> coords, obstacle_list |-> obstacles]
MapFiles ==
    {MapFile(FALSE, <<>>, <<>>)}
    \cup {MapFile(TRUE, RectFrom(k), <<Obstacle>>) : k \in 0..3}
    \cup {MapFile(TRUE, PySlice(Rect, 0, 3), <<>>),
          MapFile(TRUE, <<Rect[1], Rect[3]>>, <<>>)}

ZeroSeed(config) ==
    PyRepeat(0, config.ns * (config.N_hor + 1) + config.nu * config.N_hor)

\* ---------------------------------------------------------- constructor
NewController(config, robot_spec, params, initial_guess) ==
    [config        |-> config,
     robot_spec    |-> robot_spec,
     ns            |-> config.ns,
     nu            |-> config.nu,
     N             |-> config.N_hor,
     ts            |-> config.ts,
     params        |-> params,
     initial_guess |-> initial_guess,
     lin_vel_min   |-> robot_spec.lin_vel_min,
     lin_vel_max   |-> robot_spec.lin_vel_max,
     ang_vel_min   |-> -robot_spec.ang_vel_max,
     ang_vel_max   |-> robot_spec.ang_vel_max,
     x0            |-> PySlice(params, 2, 5),
     ref_state     |-> PySlice(params, 5, 8)]

\* ------------------------------------- MultipleShootingSolver (external)
\* scalar j of the state node k / of the control of interval k, in the
\* candidate solution v
StateVal(v, k, j) == 1000 + 100 * v + 10 * k + j
ControlVal(v, k, j) == 2000 + 100 * v + 10 * k + j

\* the optimal decision vector, laid out state0, control0, ..., stateN
SolverVector(ns, nu, N, v) ==
    [p \in 1..(ns * (N + 1) + nu * N) |->
        LET k == (p - 1) \div (ns + nu)
            r == (p - 1) % (ns + nu)
        IN  IF r < ns THEN StateVal(v, k, r) ELSE ControlVal(v, k, r - ns)]

SolverCost(v) == 10 + v
SolverTime == 1

\* one list per control axis, each over the N intervals
get_opt_controls(sol, ns, nu, N) ==
    [j \in 1..nu |-> [k \in 1..N |-> sol[(k - 1) * (ns + nu) + ns + j]]]

\* one list per state axis, each over the N+1 nodes
get_pred_states(sol, ns, nu, N) ==
    [j \in 1..ns |-> [k \in 1..(N + 1) |-> sol[(k - 1) * (ns + nu) + j]]]

\* ------------------------------------------------------------------ run
\* [nest[j][i] for i in range(len(nest[0])) for j in range(len(nest))]
MergeColumns_rowMajor(nest) ==
    [p \in 1..(Len(nest[1]) * Len(nest)) |->
        nest[((p - 1) \div Len(nest[1])) + 1][((p - 1) % Len(nest[1])) + 1]]

MergeColumns(nest) ==
    [p \in 1..(Len(nest[1]) * Len(nest)) |->
        nest[((p - 1) % Len(nest)) + 1][((p - 1) \div Len(nest)) + 1]]

\* the loop building the interleaved list, from offset i of x_pred on
RECURSIVE Interleave(_, _, _, _, _)
Interleave(x_pred, u_out, ns, nu, i) ==
    IF i >= Len(x_pred) THEN <<>>
    ELSE PySlice(x_pred, i, i + ns)
         \o (IF i \div ns < Len(u_out)
             THEN PySlice(u_out, (i \div ns) * nu, (i \div ns) * nu + nu)
             ELSE <<>>)
         \o Interleave(x_pred, u_out, ns, nu, i + ns)

\* initial_guess = initial_guess[5:]; initial_guess.extend(initial_guess[-5:])
ShiftSeed(guess) ==
    LET dropped == PyDrop(guess, ShiftStride)
    IN  dropped \o PyLast(dropped, ShiftStride)

\* the bound lists handed to set_state_bound
StateLowerBound(bounds, N) ==
    PyRepeat(<<bounds[1][1], bounds[1][2], -TwoPi>>, N + 1)
StateUpperBound_adjacentCorner(bounds, N) ==
    PyRepeat(<<bounds[2][1], bounds[2][2], TwoPi>>, N + 1)
StateUpperBound(bounds, N) ==
    PyRepeat(<<bounds[3][1], bounds[3][2], TwoPi>>, N + 1)

\* the solve calls one run makes
SolveAttempts_retry(exit_status) ==
    IF exit_status = "success" THEN <<"solve">> ELSE <<"solve", "solve">>
SolveAttempts(exit_status) == <<"solve">>

NoReturn ==
    [u_out |-> <<>>, solver_cost |-> 0, exit_status |-> "none",
     solver_time |-> 0, initial_guess |-> <<>>]

\* return u_out, solver_cost, exit_status, solver_time, initial_guess
RunReturn_raiseOnFailure(u_out, solver_cost, exit_status, solver_time, initial_guess) ==
    IF exit_status = "success"
    THEN [pc |-> "returned",
          ret |-> [u_out |-> u_out, solver_cost |-> solver_cost,
                   exit_status |-> exit_status, solver_time |-> solver_time,
                   initial_guess |-> initial_guess]]
    ELSE [pc |-> "raised", ret |-> NoReturn]
RunReturn(u_out, solver_cost, exit_status, solver_time, initial_guess) ==
    [pc |-> "returned",
     ret |-> [u_out |-> u_out, solver_cost |-> solver_cost,
              exit_status |-> exit_status, solver_time |-> solver_time,
              initial_guess |-> initial_guess]]

\* what the run has handed to ms_solver before the map is read
Attached(obj) ==
    [calls |-> <<"MultipleShootingSolver", "set_initial_state",
                 "set_motion_model", "set_parameters">>,
     ns |-> obj.ns, nu |-> obj.nu, ts |-> obj.ts, N |-> obj.N,
     initial_guess |-> obj.initial_guess, x0 |-> obj.x0, params |-> obj.params,
     control_lb |-> <<>>, control_ub |-> <<>>,
     state_lb |-> <<>>, state_ub |-> <<>>, obstacles |-> <<>>,
     sol |-> <<>>, exit_status |-> "none", cost |-> 0]

NoSolver ==
    [calls |-> <<>>, ns |-> 0, nu |-> 0, ts |-> 0, N |-> 0,
     initial_guess |-> <<>>, x0 |-> <<>>, params |-> <<>>,
     control_lb |-> <<>>, control_ub |-> <<>>,
     state_lb |-> <<>>, state_ub |-> <<>>, obstacles |-> <<>>,
     sol |-> <<>>, exit_status |-> "none", cost |-> 0]

\* run(), given the file content and the solver's outcome (status, candidate)
RunBody(obj, map, status, v) ==
    LET a0 == Attached(obj)
        bounds == map.boundary_coords
        a1 == [a0 EXCEPT !.calls = @ \o <<"set_control_bound">>,
                         !.control_lb = <<obj.lin_vel_min, obj.ang_vel_min>>,
                         !.control_ub = <<obj.lin_vel_max, obj.ang_vel_max>>]
        sol == SolverVector(obj.ns, obj.nu, obj.N, v)
        a2 == [a1 EXCEPT !.calls = @ \o <<"set_state_bound", "set_stcobs_constraints",
                                          "build_problem">>
                                     \o SolveAttempts(status)
                                     \o <<"get_opt_controls", "get_pred_states">>,
                         !.state_lb = StateLowerBound(bounds, obj.N),
                         !.state_ub = StateUpperBound(bounds, obj.N),
                         !.obstacles = map.obstacle_list,
                         !.sol = sol,
                         !.exit_status = status,
                         !.cost = SolverCost(v)]
        u_out == MergeColumns(get_opt_controls(sol, obj.ns, obj.nu, obj.N))
        x_pred == MergeColumns(get_pred_states(sol, obj.ns, obj.nu, obj.N))
        initial_guess == ShiftSeed(Interleave(x_pred, u_out, obj.ns, obj.nu, 0))
    IN  IF ~map.present
        THEN [pc |-> "raised", ret |-> NoReturn, ms |-> a0]
        ELSE IF Len(bounds) < 3
        THEN [pc |-> "raised", ret |-> NoReturn, ms |-> a1]
        ELSE [ms |-> a2] @@ RunReturn(u_out, SolverCost(v), status, SolverTime,
                                      initial_guess)

\* run() assigns no attribute of the controller
RunFrame_storeSeed == self' = [self EXCEPT !.initial_guess = ret'.initial_guess]
RunFrame == UNCHANGED self

Run ==
    /\ runs < MaxRuns
    /\ \E status \in ExitStatuses, v \in SolutionIds :
         LET out == RunBody(self, map_data, status, v)
         IN  /\ pc' = out.pc
             /\ ms' = out.ms
             /\ ret' = out.ret
    /\ runs' = runs + 1
    /\ RunFrame
    /\ UNCHANGED <<map_data, model_call>>

\* the caller builds the controller of the next cycle, seeded with zeros or,
\* for an unchanged configuration, with the seed the last run returned
Construct ==
    /\ \E config \in Configs, robot_spec \in RobotSpecs, params \in ParamVectors :
         \E seed \in {ZeroSeed(config)}
                     \cup (IF pc = "returned" /\ config = self.config
                           THEN {ret.initial_guess} ELSE {}) :
            self' = NewController(config, robot_spec, params, seed)
    /\ pc' = "new"
    /\ ms' = NoSolver
    /\ ret' = NoReturn
    /\ runs' = 0
    /\ UNCHANGED <<map_data, model_call>>

NoCall ==
    [state |-> <<>>, action |-> <<>>, ts |-> 0, rk4 |-> TRUE,
     ok |-> TRUE, value |-> <<>>]

\* ------------------------------------------------------- unicycle_model
\* cos and sin of a heading of q quarter turns
CosQ(q) == CASE q % 4 = 0 -> 1 [] q % 4 = 1 -> 0 [] q % 4 = 2 -> -1 [] OTHER -> 0
SinQ(q) == CASE q % 4 = 0 -> 0 [] q % 4 = 1 -> 1 [] q % 4 = 2 -> 0 [] OTHER -> -1

VecAdd(a, b) == [i \in 1..Len(a) |-> a[i] + b[i]]
VecScale(c, a) == [i \in 1..Len(a) |-> c * a[i]]
\* 0.5 * a and (1/6) * a; the inputs are chosen so that both are exact
VecHalf(a) == [i \in 1..Len(a) |-> a[i] \div 2]
VecSixth(a) == [i \in 1..Len(a) |-> a[i] \div 6]

d_state_f(state, action, ts) ==
    <<ts * (action[1] * CosQ(state[3])), ts * (action[1] * SinQ(state[3])),
      ts * action[2]>>

\* the rk4 branch
RK4Step(state, action, ts) ==
    LET k1 == d_state_f(state, action, ts)
        k2 == d_state_f(VecAdd(state, VecHalf(k1)), action, ts)
        k3 == d_state_f(VecAdd(state, VecHalf(k2)), action, ts)
        k4 == d_state_f(VecAdd(state, k3), action, ts)
        d_state == VecSixth(VecAdd(VecAdd(k1, VecScale(2, k2)),
                                   VecAdd(VecScale(2, k3), k4)))
    IN  VecAdd(state, d_state)

\* the else branch reads the local d_state before it is assigned, which
\* raises UnboundLocalError: the call returns nothing
unicycle_model(state, action, ts, rk4) ==
    IF rk4
    THEN [ok |-> TRUE, value |-> RK4Step(state, action, ts)]
    ELSE [ok |-> FALSE, value |-> <<>>]

ModelStates == {<<x, 0, q>> : x \in {0, 1}, q \in 0..3}
ModelActions == {<<v, w>> : v \in {0, 6}, w \in {-2, 0, 2}}
ModelSampleTimes == {1, 2}

\* a caller steps the model
UnicycleModelCall ==
    /\ \E state \in ModelStates, action \in ModelActions,
          ts \in ModelSampleTimes, rk4 \in BOOLEAN :
         LET out == unicycle_model(state, action, ts, rk4)
         IN  model_call' = [state |-> state, action |-> action, ts |-> ts,
                            rk4 |-> rk4, ok |-> out.ok, value |-> out.value]
    /\ UNCHANGED <<self, map_data, pc, ms, ret, runs>>

Init ==
    /\ map_data \in MapFiles
    /\ \E config \in Configs, robot_spec \in RobotSpecs, params \in ParamVectors :
         self = NewController(config, robot_spec, params, ZeroSeed(config))
    /\ pc = "new"
    /\ ms = NoSolver
    /\ ret = NoReturn
    /\ runs = 0
    /\ model_call = NoCall

Next == Construct \/ Run

Spec == Init /\ [][Next]_vars

\* the model function on its own
NextModel == UnicycleModelCall

InitModel ==
    /\ map_data = MapFile(TRUE, Rect, <<>>)
    /\ self = NewController([ns |-> 3, nu |-> 2, N_hor |-> 1, ts |-> 1],
                            CHOOSE r \in RobotSpecs : TRUE,
                            [i \in 1..8 |-> 100 + i],
                            ZeroSeed([ns |-> 3, nu |-> 2, N_hor |-> 1, ts |-> 1]))
    /\ pc = "new"
    /\ ms = NoSolver
    /\ ret = NoReturn
    /\ runs = 0
    /\ model_call = NoCall

SpecModel == InitModel /\ [][NextModel]_vars


\* ================================================================ claims
\* the decision-vector length for the controller's dimensions
SeedLength(obj) == obj.ns * (obj.N + 1) + obj.nu * obj.N
\* scalar j of state node k / of the control of interval k in the vector the
\* solver reported
NodeOf(k, j) == ms.sol[k * (self.ns + self.nu) + j + 1]
ControlOf(k, j) == ms.sol[k * (self.ns + self.nu) + self.ns + j + 1]
Count(calls, name) == Cardinality({i \in 1..Len(calls) : calls[i] = name})
Called(name) == \E i \in 1..Len(ms.calls) : ms.calls[i] = name
Before(a, b) ==
    \E i \in 1..Len(ms.calls) :
        /\ ms.calls[i] = a
        /\ \A j \in 1..Len(ms.calls) : ms.calls[j] = b => i < j

\* C1: with ns = 3 and nu = 2 the seed run() returns has ns*(N+1) + nu*N
\* scalars, for every horizon N >= 1.
C1_SeedLengthPreserved ==
    (pc = "returned" /\ self.ns = 3 /\ self.nu = 2)
        => Len(ret.initial_guess) = SeedLength(self)

\* C2: with ns = 3 and nu = 2, state slot i < N of the returned seed holds
\* node i+1, state slot N holds node N, control slot i < N-1 holds control
\* i+1 and control slot N-1 holds control N-1.
C2_ShiftedSlots ==
    (pc = "returned" /\ self.ns = 3 /\ self.nu = 2)
        => /\ Len(ret.initial_guess) = 5 * self.N + 3
           /\ \A i \in 0..self.N, j \in 0..2 :
                ret.initial_guess[5 * i + j + 1] = NodeOf(Min(i + 1, self.N), j)
           /\ \A i \in 0..(self.N - 1), j \in 0..1 :
                ret.initial_guess[5 * i + 3 + j + 1]
                    = ControlOf(IF i < self.N - 1 THEN i + 1 ELSE self.N - 1, j)

\* C3: whatever status the solver reports, run() returns it unchanged together
\* with the cost, the N*nu controls and a seed, both made of scalars of the
\* candidate the solver produced; an exception of run() is never raised once
\* solve has been called.
C3_StatusSurfaced ==
    /\ pc = "returned"
         => /\ ret.exit_status = ms.exit_status
            /\ ret.exit_status \in ExitStatuses
            /\ ret.solver_cost = ms.cost
            /\ Len(ret.u_out) = self.N * self.nu
            /\ \A i \in 1..Len(ret.u_out) :
                  \E p \in 1..Len(ms.sol) : ret.u_out[i] = ms.sol[p]
            /\ \A i \in 1..Len(ret.initial_guess) :
                  \E p \in 1..Len(ms.sol) : ret.initial_guess[i] = ms.sol[p]
    /\ pc = "raised" => ~Called("solve")
    /\ Called("solve") => pc = "returned"
C3_Witness ==
    /\ pc = "returned"
    /\ ms.exit_status = "infeasible"
    /\ ret.exit_status = "infeasible"
    /\ Len(ret.u_out) > 0
    /\ Len(ret.initial_guess) > 0

\* C4: a run that returns has called solve exactly once, after every
\* attachment and after build_problem; no run calls it more than once.
C4_SingleSolve ==
    /\ Count(ms.calls, "solve") <= 1
    /\ pc = "returned"
         => /\ Count(ms.calls, "solve") = 1
            /\ \A c \in {"set_initial_state", "set_motion_model", "set_parameters",
                         "set_control_bound", "set_state_bound",
                         "set_stcobs_constraints", "build_problem"} :
                  Before(c, "solve")
C4_Witness ==
    /\ pc = "returned"
    /\ ms.exit_status = "max_iterations"
    /\ Count(ms.calls, "solve") = 1

\* C5: a controller that was constructed without an error holds a current
\* state of 3 scalars and a reference of 3 scalars (nothing was truncated).
C5_NoSilentTruncation ==
    Len(self.x0) = 3 /\ Len(self.ref_state) = 3

\* C6 as stated: the returned controls are ordered per axis, the N values of
\* one axis contiguous.
C6_PerAxisOrder ==
    (pc = "returned" /\ self.ns = 3 /\ self.nu = 2)
        => /\ Len(ret.u_out) = self.N * self.nu
           /\ \A j \in 0..(self.nu - 1), k \in 0..(self.N - 1) :
                ret.u_out[j * self.N + k + 1] = ControlOf(k, j)
\* C6 amended: the returned controls hold N*nu scalars ordered per interval,
\* the nu values of interval k contiguous at k*nu .. k*nu+nu-1.
C6_PerIntervalOrder ==
    pc = "returned"
        => /\ Len(ret.u_out) = self.N * self.nu
           /\ \A k \in 0..(self.N - 1), j \in 0..(self.nu - 1) :
                ret.u_out[k * self.nu + j + 1] = ControlOf(k, j)
C6_Witness ==
    /\ pc = "returned"
    /\ self.ns = 3 /\ self.nu = 2 /\ self.N >= 2
    /\ ret.u_out[2] = ControlOf(0, 1)

\* the four corners of an axis-parallel rectangle, listed around it
IsRectangle(b) ==
    /\ Len(b) = 4
    /\ \A i \in 1..4 :
         LET n == b[(i % 4) + 1]
             o == b[((i + 1) % 4) + 1]
         IN  /\ (b[i][1] = n[1]) # (b[i][2] = n[2])
             /\ b[i][1] # o[1] /\ b[i][2] # o[2]
BoxOrdered(lb, ub) ==
    \A i \in 1..Len(lb) : \A c \in 1..3 : lb[i][c] <= ub[i][c]
SameBoxPerNode ==
    /\ Len(ms.state_lb) = self.N + 1
    /\ Len(ms.state_ub) = self.N + 1
    /\ \A i \in 1..(self.N + 1) :
         /\ ms.state_lb[i] = <<map_data.boundary_coords[1][1],
                               map_data.boundary_coords[1][2], -TwoPi>>
         /\ ms.state_ub[i] = <<map_data.boundary_coords[3][1],
                               map_data.boundary_coords[3][2], TwoPi>>
\* C7 as stated: N+1 equal boxes from corners 0 and 2 with heading -2pi..2pi,
\* and for a rectangular boundary lower <= upper at every node.
C7_RectangleOrdered ==
    Called("set_state_bound")
        => /\ SameBoxPerNode
           /\ IsRectangle(map_data.boundary_coords)
                => BoxOrdered(ms.state_lb, ms.state_ub)
\* C7 amended: N+1 equal boxes from corners 0 and 2 with heading -2pi..2pi;
\* lower <= upper at every node exactly when corner 0 is componentwise <=
\* corner 2.
C7_OrderedIffCornersOrdered ==
    Called("set_state_bound")
        => /\ SameBoxPerNode
           /\ BoxOrdered(ms.state_lb, ms.state_ub)
                <=> /\ map_data.boundary_coords[1][1] <= map_data.boundary_coords[3][1]
                    /\ map_data.boundary_coords[1][2] <= map_data.boundary_coords[3][2]
C7_Witness ==
    /\ Called("set_state_bound")
    /\ IsRectangle(map_data.boundary_coords)
    /\ ~BoxOrdered(ms.state_lb, ms.state_ub)
    /\ self.N >= 2

C9_RunKeepsFields ==
    [][runs' = runs + 1
         => /\ self' = self
            /\ ms'.initial_guess = self.initial_guess
            /\ ms'.x0 = self.x0
            /\ runs >= 1 => (ms'.initial_guess = ms.initial_guess /\ ms'.x0 = ms.x0)]_vars
C9_Witness ==
    /\ runs = 2
    /\ pc = "returned"
    /\ ms.initial_guess = self.initial_guess
    /\ ret.initial_guess # self.initial_guess

\* the explicit Euler step of the unicycle
EulerStep(state, action, ts) ==
    <<state[1] + ts * (action[1] * CosQ(state[3])),
      state[2] + ts * (action[1] * SinQ(state[3])),
      state[3] + ts * action[2]>>
\* C10: every call of unicycle_model returns a next state; with rk4=False it
\* is the Euler step; the heading is theta + ts*w in both cases.
C10_BothSchemes ==
    model_call.ts # 0
        => /\ model_call.ok
           /\ Len(model_call.value) = 3
           /\ model_call.value[3] = model_call.state[3] + model_call.ts * model_call.action[2]
           /\ ~model_call.rk4
                => model_call.value
                     = EulerStep(model_call.state, model_call.action, model_call.ts)
           /\ model_call.rk4
                => model_call.value
                     = RK4Step(model_call.state, model_call.action, model_call.ts)

====
